---- MODULE Spec2Model ----
(***************************************************************************)
(* State-machine model of NSandbox (app/server/lib/NSandbox.ts): the       *)
(* controller of a sandboxed child process that is driven over two pipes.  *)
(* Node runs every handler to completion, so each handler is one action.   *)
(***************************************************************************)
EXTENDS Naturals, Sequences, FiniteSets

\* ------------------------------------------------------------------ bounds
MaxCalls == 2        \* pyCall() invocations explored
MaxInbound == 3      \* inbound frames explored, CALL frames and others
MaxShutdowns == 2    \* shutdown() invocations explored

\* ------------------------------------------------------- protocol constants
\* Message codes (sandboxUtil.CALL / DATA / EXC); BADCODE stands for any other
\* value a peer may put in the code position of a frame.
CALL == "CALL"
DATA == "DATA"
EXC == "EXC"
BADCODE == "BADCODE"

\* Payloads the peer may put in a DATA or EXC frame.
Payloads == {"a", "b"}

\* Results an exported function can produce.
ReturnValues == {"r"}
Thrown == {"boom"}

\* The table passed as options.exports holds one function, "f".  The table is
\* a plain object, so a name is also found when Object.prototype defines it.
OwnNames == {"f"}
InheritedNames == {"toString"}
UnknownNames == {"nosuch"}
Names == OwnNames \cup InheritedNames \cup UnknownNames

\* The payload of an inbound CALL frame: anything that is not an array, the
\* empty array, or an array whose first element is a name.
NotArray == [isArray |-> FALSE, items |-> << >>]
ArrayOf(items) == [isArray |-> TRUE, items |-> items]
CallPayloads == {NotArray, ArrayOf(<< >>)} \cup {ArrayOf(<<n>>) : n \in Names}

\* err.toString() of an Error whose message is msg.
ErrToString(msg) == "Error: " \o msg

\* SandboxError messages of _onSandboxClose and _sendData.
ClosedFromMsg == "PipeFromSandbox is closed"
ClosedToMsg == "PipeToSandbox is closed"

VARIABLES
    proc,          \* child process: "nospawn" (spawn failed, 'error' not yet
                   \* emitted), "running", "exited" ('exit' emitted), "closed"
                   \* ('close' emitted), "failed" ('error' emitted),
                   \* "failedclosed" ('close' emitted after 'error')
    sigkilled,     \* SIGKILL was delivered to the running process
    kills,         \* number of childProc.kill('SIGKILL') calls
    isReadClosed,  \* _isReadClosed
    isWriteClosed, \* _isWriteClosed
    throttle,      \* _throttle (GRIST_THROTTLE_CPU set): "on" or "stopped"
    ends,          \* number of _streamToSandbox.end() calls
    pendingReads,  \* _pendingReads, as the ids of the calls that own the pairs
    calls,         \* one record per pyCall() made so far, in call order
    toSandbox,     \* the frame the outbound stream accepted last
    wroteAfterEnd, \* write() was called after end()
    nFrames,       \* number of inbound non-CALL frames handled
    nInCalls,      \* number of inbound CALL frames handled
    running,       \* inbound calls whose exported function has not completed
    sd             \* one record per shutdown() made so far, in call order

vars == <<proc, sigkilled, kills, isReadClosed, isWriteClosed, throttle, ends,
          pendingReads, calls, toSandbox, wroteAfterEnd, nFrames, nInCalls, running, sd>>

procVars == <<proc, sigkilled, kills>>
flagVars == <<isReadClosed, isWriteClosed, throttle, ends>>
callVars == <<pendingReads, calls>>
outVars == <<toSandbox, wroteAfterEnd>>
inVars == <<nInCalls, running>>

\* for: the pyCall (code CALL) or the inbound call (DATA, EXC) the frame belongs to.
NoFrame == [code |-> "none", data |-> "none", for |-> 0]

Init ==
    /\ proc \in {"running", "nospawn"}
    /\ sigkilled = FALSE
    /\ kills = 0
    /\ isReadClosed = FALSE
    /\ isWriteClosed = FALSE
    /\ throttle = "on"
    /\ ends = 0
    /\ pendingReads = << >>
    /\ calls = << >>
    /\ toSandbox = NoFrame
    /\ wroteAfterEnd = FALSE
    /\ nFrames = 0
    /\ nInCalls = 0
    /\ running = {}
    /\ sd = << >>

\* ------------------------------------------------------------- _sendData
\* Variant: _sendData does not look at _isReadClosed.
SendNeverThrows == FALSE

\* _sendData throws before writing when the inbound pipe is marked closed.
SendThrows == isReadClosed

\* _streamToSandbox.write(buf): a stream that was ended accepts nothing more.
\* The peer consumes what the stream accepted; the model keeps the last frame.
StreamWrite(out, frame) == IF isWriteClosed THEN out ELSE frame
LateWrite(w) == w \/ isWriteClosed

\* ---------------------------------------------------------------- pyCall
\* A call record: st is "pending", "resolved", "rejected" or "threw" (pyCall
\* threw before returning a promise); val is the value or the error message;
\* n counts the invocations of the call's resolve/reject pair.
PendingCall == [st |-> "pending", val |-> "none", n |-> 0]
ThrewCall == [st |-> "threw", val |-> ClosedToMsg, n |-> 0]

PyCall ==
    /\ Len(calls) < MaxCalls
    /\ LET id == Len(calls) + 1 IN
       IF SendThrows
       THEN /\ calls' = Append(calls, ThrewCall)
            /\ UNCHANGED <<pendingReads, toSandbox, wroteAfterEnd>>
       ELSE /\ toSandbox' = StreamWrite(toSandbox, [code |-> CALL, data |-> "args", for |-> id])
            /\ wroteAfterEnd' = LateWrite(wroteAfterEnd)
            /\ pendingReads' = Append(pendingReads, id)
            /\ calls' = Append(calls, PendingCall)
    /\ UNCHANGED <<procVars, flagVars, nFrames, inVars, sd>>

\* ---------------------------------------------------------------- _close
\* Variant: _close and _onSandboxClose leave the throttle running.
KeepThrottle(t) == t

\* this._throttle.stop(), when there is a throttle.
StopThrottle(t) == IF t = "on" THEN "stopped" ELSE t
\* Variant: end() is called without looking at _isWriteClosed.
EndCountUnguarded(e) == e + 1

EndCount(e) == IF isWriteClosed THEN e ELSE e + 1

Close ==
    /\ throttle' = StopThrottle(throttle)
    /\ ends' = EndCount(ends)
    /\ isWriteClosed' = TRUE

\* -------------------------------------------------------------- shutdown
\* A shutdown record: pc is "waiting" (at the await) or "done"; timer is the
\* kill timer: "armed", "fired" or "cleared"; outcome is "none", "resolved"
\* or "rejected".
\* Variant: the kill timer is cleared before the await instead of after it.
WaitingShutdownNoTimer == [pc |-> "waiting", timer |-> "cleared", outcome |-> "none"]

WaitingShutdown == [pc |-> "waiting", timer |-> "armed", outcome |-> "none"]

\* The promise settles (first settlement wins).  When it resolves, the code
\* after the await runs: clearTimeout(timeoutID).  When it rejects, the await
\* throws and shutdown() ends there: the timer is left as it is.
Finish(s, outcome) ==
    IF s.pc = "waiting"
    THEN [pc |-> "done",
          timer |-> IF s.timer = "armed" /\ outcome = "resolved" THEN "cleared" ELSE s.timer,
          outcome |-> outcome]
    ELSE s

FinishAll(outcome) == [i \in DOMAIN sd |-> Finish(sd[i], outcome)]

\* if (this._isWriteClosed) { resolve(); }
ResolvesAtOnce == isWriteClosed

Shutdown ==
    /\ Len(sd) < MaxShutdowns
    /\ sd' = Append(sd, IF ResolvesAtOnce
                        THEN Finish(WaitingShutdown, "resolved")
                        ELSE WaitingShutdown)
    /\ Close
    /\ UNCHANGED <<procVars, isReadClosed, callVars, outVars, nFrames, inVars>>

\* The setTimeout callback: this.childProc.kill('SIGKILL').
KillTimer(i) ==
    /\ i \in DOMAIN sd
    /\ sd[i].timer = "armed"
    /\ sd' = [sd EXCEPT ![i].timer = "fired"]
    /\ kills' = kills + 1
    /\ sigkilled' = (sigkilled \/ proc = "running")
    /\ UNCHANGED <<proc, flagVars, callVars, outVars, nFrames, inVars>>

\* ------------------------------------------------- child process events
\* 'exit': the process ended, by itself or by a signal.  Only shutdown()
\* listens to it.
ProcExit ==
    /\ proc = "running"
    /\ proc' = "exited"
    /\ sd' = FinishAll("resolved")
    /\ UNCHANGED <<sigkilled, kills, flagVars, callVars, outVars, nFrames, inVars>>

\* 'close' -> _onExit, then shutdown()'s resolve.  Node emits 'close' once
\* the process ended and its stdio streams are closed, so after the inbound
\* stream's 'end'; after a failed spawn the streams are destroyed.
OnExit ==
    /\ \/ proc = "exited" /\ isReadClosed /\ proc' = "closed"
       \/ proc = "failed" /\ proc' = "failedclosed"
    /\ Close
    /\ sd' = FinishAll("resolved")
    /\ UNCHANGED <<sigkilled, kills, isReadClosed, callVars, outVars, nFrames, inVars>>

\* 'error' -> _onError, then shutdown()'s reject.
OnError ==
    /\ proc = "nospawn"
    /\ proc' = "failed"
    /\ Close
    /\ sd' = FinishAll("rejected")
    /\ UNCHANGED <<sigkilled, kills, isReadClosed, callVars, outVars, nFrames, inVars>>

\* ------------------------------------------------------- _onSandboxClose
RejectClosed(c) == [st |-> "rejected", val |-> ClosedFromMsg, n |-> c.n + 1]

InSeq(x, q) == \E k \in DOMAIN q : q[k] = x

\* Variant: only the oldest pending call is rejected.
DrainFirst(cs, q) ==
    [c \in DOMAIN cs |-> IF q # << >> /\ c = Head(q) THEN RejectClosed(cs[c]) ELSE cs[c]]

DrainAll(cs, q) == [c \in DOMAIN cs |-> IF InSeq(c, q) THEN RejectClosed(cs[c]) ELSE cs[c]]

\* 'end' or 'error' of the inbound stream; a stream emits one of them once.
OnSandboxClose ==
    /\ ~isReadClosed
    /\ throttle' = StopThrottle(throttle)
    /\ isReadClosed' = TRUE
    /\ calls' = DrainAll(calls, pendingReads)
    /\ pendingReads' = << >>
    /\ UNCHANGED <<procVars, isWriteClosed, ends, outVars, nFrames, inVars, sd>>

\* --------------------------------------------------------- _onSandboxMsg
\* Variant: the newest pair is taken (pop) instead of the oldest.
ShiftLast(q) == [item |-> q[Len(q)], rest |-> SubSeq(q, 1, Len(q) - 1)]

\* this._pendingReads.shift()
Shift(q) == [item |-> Head(q), rest |-> Tail(q)]

\* Variant: resolve and reject are exchanged.
SettleSwapped(c, code, data) ==
    IF code = EXC THEN [st |-> "resolved", val |-> data, n |-> c.n + 1]
    ELSE IF code = DATA THEN [st |-> "rejected", val |-> data, n |-> c.n + 1]
    ELSE c

\* The call's pair is invoked according to the code; any other code only logs.
Settle(c, code, data) ==
    IF code = EXC THEN [st |-> "rejected", val |-> data, n |-> c.n + 1]
    ELSE IF code = DATA THEN [st |-> "resolved", val |-> data, n |-> c.n + 1]
    ELSE c

OnResponse(code, data) ==
    /\ nFrames + nInCalls < MaxInbound
    /\ nFrames' = nFrames + 1
    /\ IF pendingReads # << >>
       THEN LET sh == Shift(pendingReads) IN
            /\ pendingReads' = sh.rest
            /\ calls' = [calls EXCEPT ![sh.item] = Settle(@, code, data)]
       ELSE UNCHANGED callVars
    /\ UNCHANGED <<outVars, inVars>>

\* this._exportedFunctions[fname]: a property lookup on a plain object.
Lookup(fname) ==
    IF fname \in OwnNames THEN "own"
    ELSE IF fname \in InheritedNames THEN "inherited"
    ELSE "none"

\* !Array.isArray(data) || data.length === 0
InvalidCall(data) == ~data.isArray \/ Len(data.items) = 0

\* Variant: an answer is held back while a call that arrived earlier runs.
RespondInArrivalOrder(i, code, data) ==
    IF SendThrows \/ \E j \in running : j < i
    THEN UNCHANGED outVars
    ELSE /\ toSandbox' = StreamWrite(toSandbox, [code |-> code, data |-> data, for |-> i])
         /\ wroteAfterEnd' = LateWrite(wroteAfterEnd)

\* The answer is handed to _sendData; what it throws is caught and logged.
Respond(i, code, data) ==
    IF SendThrows
    THEN UNCHANGED outVars
    ELSE /\ toSandbox' = StreamWrite(toSandbox, [code |-> code, data |-> data, for |-> i])
         /\ wroteAfterEnd' = LateWrite(wroteAfterEnd)

ObjectToString == "[object Undefined]"

\* A CALL frame, the nInCalls+1-th.  A name the table does not hold, or one
\* that Object.prototype answers, is dealt with before the next event; a
\* function of the table may take any time to complete.
OnCall(data) ==
    /\ nFrames + nInCalls < MaxInbound
    /\ nInCalls' = nInCalls + 1
    /\ LET i == nInCalls + 1 IN
       IF InvalidCall(data)
       THEN UNCHANGED <<outVars, running>>
       ELSE LET fname == data.items[1] IN
            CASE Lookup(fname) = "none" ->
                   /\ Respond(i, EXC, ErrToString("No such exported function: " \o fname))
                   /\ UNCHANGED running
              [] Lookup(fname) = "inherited" ->
                   /\ Respond(i, DATA, ObjectToString)
                   /\ UNCHANGED running
              [] Lookup(fname) = "own" ->
                   /\ running' = running \cup {i}
                   /\ UNCHANGED outVars
    /\ UNCHANGED <<callVars, nFrames>>

\* Variant: no frame is handled until the exported functions have completed.
OnSandboxMsgAwaiting(code, data) ==
    /\ running = {}
    /\ ~isReadClosed
    /\ proc \in {"running", "exited"}
    /\ IF code = CALL THEN OnCall(data) ELSE OnResponse(code, data)
    /\ UNCHANGED <<procVars, flagVars, sd>>

\* A frame decoded from the inbound stream: nothing arrives after its 'end',
\* and only a spawned process writes.  The promise chain of an inbound call
\* is not awaited.
OnSandboxMsg(code, data) ==
    /\ ~isReadClosed
    /\ proc \in {"running", "exited"}
    /\ IF code = CALL THEN OnCall(data) ELSE OnResponse(code, data)
    /\ UNCHANGED <<procVars, flagVars, sd>>

\* The exported function of inbound call i returns ret or throws.
InCallReturn(i, ret) ==
    /\ i \in running
    /\ running' = running \ {i}
    /\ Respond(i, DATA, ret)
    /\ UNCHANGED <<procVars, flagVars, callVars, nFrames, nInCalls, sd>>

InCallThrow(i, msg) ==
    /\ i \in running
    /\ running' = running \ {i}
    /\ Respond(i, EXC, ErrToString(msg))
    /\ UNCHANGED <<procVars, flagVars, callVars, nFrames, nInCalls, sd>>

\* ------------------------------------------- outbound stream 'error'
\* Variant: the handler treats the failure like the end of the inbound stream.
OnStreamToSandboxErrorDraining ==
    /\ toSandbox # NoFrame \/ wroteAfterEnd
    /\ isReadClosed' = TRUE
    /\ calls' = DrainAll(calls, pendingReads)
    /\ pendingReads' = << >>
    /\ UNCHANGED <<procVars, isWriteClosed, throttle, ends, outVars, nFrames, inVars, sd>>

\* A write failed (the peer closed its end, or write() came after end()) and
\* the stream emits 'error'.  The handler writes to the log unless
\* _isWriteClosed is set, and touches nothing of the controller.
OnStreamToSandboxError ==
    /\ toSandbox # NoFrame \/ wroteAfterEnd
    /\ UNCHANGED vars

\* ------------------------------------------------------------------ Next
Next ==
    \/ PyCall
    \/ Shutdown
    \/ \E i \in 1..MaxShutdowns : KillTimer(i)
    \/ ProcExit
    \/ OnExit
    \/ OnError
    \/ OnSandboxClose
    \/ OnStreamToSandboxError
    \/ \E data \in CallPayloads : OnSandboxMsg(CALL, data)
    \/ \E code \in {DATA, EXC, BADCODE} : \E data \in Payloads : OnSandboxMsg(code, data)
    \/ \E i \in 1..MaxInbound : \E ret \in ReturnValues : InCallReturn(i, ret)
    \/ \E i \in 1..MaxInbound : \E msg \in Thrown : InCallThrow(i, msg)

Spec == Init /\ [][Next]_vars

\* The event loop runs what it has queued: an armed timer fires, a killed
\* process ends, 'error' and 'close' are emitted, and the pipe of a process
\* that ended reaches its end.
Fairness ==
    /\ WF_vars(\E i \in 1..MaxShutdowns : KillTimer(i))
    /\ WF_vars(sigkilled /\ ProcExit)
    /\ WF_vars(OnError)
    /\ WF_vars(OnExit)
    /\ WF_vars(proc = "exited" /\ OnSandboxClose)

FairSpec == Spec /\ Fairness

\* ======================================================================
\* Properties
\* ======================================================================
Settled(c) == calls[c].st \in {"resolved", "rejected"}

\* Settled by an inbound frame (and not by the closing of the pipe).
FrameSettled(c) ==
    \/ calls[c].st = "resolved"
    \/ calls[c].st = "rejected" /\ calls[c].val # ClosedFromMsg

FrameSettledCount == Cardinality({c \in DOMAIN calls : FrameSettled(c)})

\* C1: FIFO correlation.  As long as every response frame handled so far was
\* a DATA or EXC frame that found a call pending, the calls settled by
\* frames are exactly the first nFrames calls issued (the i-th response
\* settled the i-th call); and a step that is not the closing of the pipe
\* settles no call other than the oldest pending one.
C1_FifoCorrelation ==
    /\ [](nFrames = FrameSettledCount
            => \A c \in DOMAIN calls : FrameSettled(c) <=> c <= nFrames)
    /\ [][\A c \in DOMAIN calls :
            (calls[c].st = "pending" /\ calls'[c].st # "pending" /\ ~isReadClosed')
                => (pendingReads # << >> /\ c = Head(pendingReads))]_vars

C1_Witness ==
    /\ nFrames = 2
    /\ Len(calls) = 2
    /\ calls[1] = [st |-> "resolved", val |-> "a", n |-> 1]
    /\ calls[2] = [st |-> "rejected", val |-> "b", n |-> 1]

\* C2: closed-channel draining.  The step that marks the inbound pipe closed
\* rejects every call of the registry with the channel-closed error and
\* empties the registry; from then on the registry stays empty, every new
\* pyCall throws at once, and a call that threw is never settled.
C2_ClosedChannelDraining ==
    /\ [][(~isReadClosed /\ isReadClosed')
            => /\ pendingReads' = << >>
               /\ \A c \in DOMAIN calls :
                    InSeq(c, pendingReads)
                        => calls'[c] = [st |-> "rejected", val |-> ClosedFromMsg, n |-> 1]]_vars
    /\ [](isReadClosed => pendingReads = << >>)
    /\ [][isReadClosed /\ Len(calls') > Len(calls)
            => calls'[Len(calls')].st = "threw"]_vars
    /\ [][\A c \in DOMAIN calls : calls[c].st = "threw" => calls'[c] = calls[c]]_vars

C2_Witness ==
    /\ isReadClosed
    /\ Len(calls) = 2
    /\ calls[1] = [st |-> "rejected", val |-> ClosedFromMsg, n |-> 1]
    /\ calls[2].st = "threw"

\* C3 (as claimed): no shutdown() has completed while the child process is
\* still running.
C3_ShutdownWaitsForExit ==
    \A i \in DOMAIN sd : sd[i].pc = "done" => proc # "running"

\* C4: shutdown idempotence.  However many shutdown() calls are made and
\* however they interleave with the exit of the process, end() is called on
\* the outbound stream at most once, at most one SIGKILL is sent, and once
\* the process has closed or failed no shutdown() is still waiting.
C4_ShutdownIdempotent ==
    /\ ends <= 1
    /\ kills <= 1
    /\ Len(sd) > 0 => ends = 1
    /\ proc \in {"closed", "failed", "failedclosed"}
          => \A i \in DOMAIN sd : sd[i].pc = "done"

C4_Witness ==
    /\ Len(sd) = 2
    /\ sd[1].pc = "done" /\ sd[2].pc = "done"
    /\ sd[2].timer = "cleared"
    /\ proc = "closed"
    /\ ends = 1

\* C5: forced kill.  A shutdown() that waits on a running process always has
\* its kill timer pending or the SIGKILL delivered; the timer's firing sends
\* SIGKILL; and every waiting shutdown() eventually completes.
C5_ForcedKill ==
    /\ [](\A i \in DOMAIN sd :
            (sd[i].pc = "waiting" /\ proc = "running")
                => (sd[i].timer = "armed" \/ sigkilled))
    /\ [][\A i \in DOMAIN sd :
            (sd[i].timer = "armed" /\ sd'[i].timer = "fired")
                => (kills' = kills + 1 /\ (proc = "running" => sigkilled'))]_vars
    /\ (\E i \in DOMAIN sd : sd[i].pc = "waiting") ~> (\A i \in DOMAIN sd : sd[i].pc = "done")

C5_Witness ==
    \E i \in DOMAIN sd :
        /\ sd[i] = [pc |-> "done", timer |-> "fired", outcome |-> "resolved"]
        /\ sigkilled
        /\ kills = 1

\* The inbound CALL frames whose handling finishes in the step: the frame
\* just received unless its function is left running, and the running
\* functions that complete.
FinishedInStep(i) ==
    \/ i = nInCalls + 1 /\ nInCalls' = i /\ i \notin running'
    \/ i \in running /\ i \notin running'

\* The step puts a response frame for inbound call i on the outbound stream.
AnswersInStep(i) ==
    /\ toSandbox' # toSandbox
    /\ toSandbox'.for = i
    /\ toSandbox'.code \in {DATA, EXC}

\* C6 (as claimed): every CALL frame received is answered with one response
\* frame (DATA or EXC) when its handling finishes.
C6_EveryCallAnswered ==
    [][\A i \in 1..MaxInbound : FinishedInStep(i) => AnswersInStep(i)]_vars

\* C7 (as claimed): a CALL frame naming a function that is not in the table
\* puts exactly one EXC frame on the outbound stream and leaves the registry
\* of pending calls unchanged.
C7_UnknownCallGetsExc ==
    [][\A name \in Names \ OwnNames :
            OnSandboxMsg(CALL, ArrayOf(<<name>>))
                => /\ AnswersInStep(nInCalls + 1)
                   /\ toSandbox'.code = EXC
                   /\ UNCHANGED callVars]_vars

\* C8 (as claimed): a CALL frame with no name (not an array, or an empty
\* array) is answered with an EXC frame.
C8_InvalidCallGetsExc ==
    [][\A data \in {NotArray, ArrayOf(<< >>)} :
            OnSandboxMsg(CALL, data)
                => (AnswersInStep(nInCalls + 1) /\ toSandbox'.code = EXC)]_vars

\* C9: response mapping.  A DATA frame handled while a call is pending
\* resolves the oldest pending call with the frame's payload, an EXC frame
\* rejects it with an error carrying the payload; no other call changes, and
\* neither do the closed flags, the process or the shutdown calls.
C9_ResponseMapping ==
    [][\A code \in {DATA, EXC} : \A data \in Payloads :
            (OnSandboxMsg(code, data) /\ pendingReads # << >>)
                => LET c == Head(pendingReads) IN
                   /\ calls'[c].st = (IF code = DATA THEN "resolved" ELSE "rejected")
                   /\ calls'[c].val = data
                   /\ calls'[c].n = 1
                   /\ \A o \in DOMAIN calls \ {c} : calls'[o] = calls[o]
                   /\ UNCHANGED <<proc, isReadClosed, isWriteClosed, sd>>]_vars

C9_Witness ==
    /\ Len(calls) = 2
    /\ calls[1] = [st |-> "rejected", val |-> "a", n |-> 1]
    /\ calls[2] = [st |-> "resolved", val |-> "b", n |-> 1]
    /\ ~isReadClosed

\* C10 (as claimed): a pending call leaves the registry only by being
\* settled, exactly once: every call that is still unsettled is in the
\* registry, and no pair is invoked twice.
C10_RemovedMeansSettled ==
    \A c \in DOMAIN calls :
        /\ calls[c].st = "pending" => InSeq(c, pendingReads)
        /\ Settled(c) => calls[c].n = 1
        /\ calls[c].n <= 1

\* C11 (as claimed): no caller stays suspended for ever.  Nothing settles a
\* call after the inbound stream closed, so the claim says that from the
\* closing of the inbound stream on every pyCall made has been resolved, has
\* been failed or has thrown.
C11_NoCallerSuspended ==
    isReadClosed => \A c \in DOMAIN calls : calls[c].st # "pending"

C13_SpawnFailureCleansUp ==
    proc \in {"failed", "failedclosed"}
        => /\ isWriteClosed
           /\ throttle = "stopped"
           /\ pendingReads = << >>
           /\ \A c \in DOMAIN calls : calls[c].st # "pending"

\* C14 (as claimed): a shutdown() whose wait has ended, by 'exit', 'close' or
\* 'error', has no kill timer pending.
C14_NoTimerAfterWait ==
    \A i \in DOMAIN sd : sd[i].pc = "done" => sd[i].timer # "armed"

\* C15: the handler of the outbound stream's 'error' leaves the registry, the
\* calls, both closed flags, the process state and the shutdown calls as they
\* are; and a call is failed with the channel-closed error only in the step
\* that marks the inbound stream closed.
C15_WriteErrorKeepsRegistry ==
    /\ [][OnStreamToSandboxError
            => UNCHANGED <<pendingReads, calls, isReadClosed, isWriteClosed, proc, sd>>]_vars
    /\ [][\A c \in DOMAIN calls :
            (calls[c].st = "pending" /\ calls'[c] = RejectClosed(calls[c]))
                => (~isReadClosed /\ isReadClosed' /\ ~OnStreamToSandboxError)]_vars

\* Two calls are pending on open streams when a write fails.
C15_Witness ==
    /\ ENABLED OnStreamToSandboxError
    /\ Len(pendingReads) = 2
    /\ toSandbox.code = CALL
    /\ ~isReadClosed
    /\ ~isWriteClosed
    /\ proc = "running"

\* C16: inbound-call dispatch does not block the pump.  While exported
\* functions are running and the inbound stream is open, every further frame
\* can be handled; a DATA or EXC frame handled then settles the oldest
\* pending call, a CALL frame for a function of the table starts it, and
\* neither touches the functions already running.
C16_PumpNotBlocked ==
    /\ []((/\ running # {}
           /\ ~isReadClosed
           /\ proc \in {"running", "exited"}
           /\ nFrames + nInCalls < MaxInbound)
            => /\ \A code \in {DATA, EXC} : \A data \in Payloads :
                    ENABLED OnSandboxMsg(code, data)
               /\ \A data \in CallPayloads : ENABLED OnSandboxMsg(CALL, data))
    /\ [][\A code \in {DATA, EXC} : \A data \in Payloads :
            (running # {} /\ pendingReads # << >> /\ OnSandboxMsg(code, data))
                => /\ calls'[Head(pendingReads)] = Settle(calls[Head(pendingReads)], code, data)
                   /\ pendingReads' = Tail(pendingReads)
                   /\ running' = running]_vars
    /\ [][\A name \in OwnNames :
            (running # {} /\ OnSandboxMsg(CALL, ArrayOf(<<name>>)))
                => running' = running \cup {nInCalls + 1}]_vars

\* The first inbound call is still running; since it arrived a second CALL
\* frame and a response frame have been handled.
C16_Witness ==
    /\ running = {1}
    /\ nInCalls = 2
    /\ nFrames = 1
    /\ Len(calls) = 1
    /\ calls[1] = [st |-> "resolved", val |-> "a", n |-> 1]

\* C17: responses go out in completion order.  When the exported function of
\* an inbound call completes while both streams are open, its response frame
\* is written in that step, whether or not calls that arrived earlier are
\* still running; the other running calls stay running.
C17_CompletionOrder ==
    [][\A i \in running :
            (i \notin running' /\ ~isReadClosed /\ ~isWriteClosed)
                => /\ toSandbox' # toSandbox
                   /\ toSandbox'.for = i
                   /\ toSandbox'.code \in {DATA, EXC}
                   /\ running' = running \ {i}]_vars

\* The second inbound call has been answered while the first is running.
C17_Witness ==
    /\ running = {1}
    /\ nInCalls = 2
    /\ toSandbox = [code |-> DATA, data |-> "r", for |-> 2]

\* C18: whenever the inbound stream is marked closed the registry is empty,
\* and the mark is never taken back.
C18_ReadClosedRegistryEmpty ==
    /\ [](isReadClosed => pendingReads = << >>)
    /\ [][isReadClosed => isReadClosed']_vars

\* pyCall was called twice after the inbound stream closed, the process has
\* closed, and the registry is empty.
C18_Witness ==
    /\ isReadClosed
    /\ proc = "closed"
    /\ Len(calls) = 2
    /\ calls[1].st = "threw" /\ calls[2].st = "threw"
    /\ pendingReads = << >>

\* C19 (as claimed): a pyCall either has its CALL frame accepted by the
\* outbound stream and its entry appended to the registry, in one step, or
\* neither; and the registry holds its entries in the order of the calls.
C19_EntryIffFrameWritten ==
    /\ [][Len(calls') > Len(calls)
            => LET id == Len(calls') IN
               \/ /\ pendingReads' = Append(pendingReads, id)
                  /\ toSandbox' = [code |-> CALL, data |-> "args", for |-> id]
               \/ /\ pendingReads' = pendingReads
                  /\ toSandbox' = toSandbox]_vars
    /\ [](\A k \in DOMAIN pendingReads : \A l \in DOMAIN pendingReads :
            k < l => pendingReads[k] < pendingReads[l])

\* C20 (as claimed): once the outbound stream has been ended, write() is not
\* called on it again, and a pyCall made from then on throws instead of
\* being left pending.
C20_NoWriteAfterEnd ==
    /\ [](~wroteAfterEnd)
    /\ [][(isWriteClosed /\ Len(calls') > Len(calls))
            => calls'[Len(calls')].st = "threw"]_vars
====
